---- MODULE Spec2Model ----
(***************************************************************************)
(* Model of the drone edge node (src/drone_edge/drone.py) with its battery *)
(* (src/common/battery.py) and wire records (src/common/messages.py).      *)
(*                                                                         *)
(* Threads of DroneEdge.run are modelled as processes with a program       *)
(* position each: the aggregation loop (_forward_loop), the retry loop     *)
(* (_retry_unsent_reports_loop) and the acceptor (_run_server).  Operator  *)
(* calls made by the dashboard (manual_drain_battery and                   *)
(* set_low_battery_threshold) are atomic actions that interleave with the  *)
(* phases of the aggregation loop.                                         *)
(***************************************************************************)
EXTENDS Integers, Sequences, FiniteSets, TLC

\* ---------------------------------------------------------------- constants
CRITICAL_BATTERY_THRESHOLD == 90
RECHARGE_RATE == 10
DRAIN_RATE == 3
START_LEVEL == 100
DEFAULT_LOW_THRESHOLD == 20
FORWARD_BATCH == 5
TRAVEL_TICKS == 2
MIN_THRESHOLD == 5
MAX_THRESHOLD == 80
DELIM == "\n"

\* ------------------------------------------------------------------- bounds
\* readings the sensors deliver in one run
MaxReadings == 10
\* readings the sensors deliver in one run of the fair retry specification
MaxLiveReadings == 5
\* battery tick intervals that elapse in a run of the delivery specification
MaxTicks == 1
\* battery tick intervals that elapse in a run of the scenario specification
MaxScenarioTicks == 38
\* battery tick intervals that elapse in a run of the interleaving specification
MaxRaceTicks == 2
\* frames the modelled sensor session sends, and readings of other sessions
MaxFrames == 3
\* readings in a batch of the report specification
MaxBatch == 4

\* inputs of the operator calls
DrainAmounts == {0, 10, 35}
ThresholdInputs == {4, 5, 50, 80, 81}

VARIABLES
    level,                       \* battery.level
    returning,                   \* battery.returning
    low_threshold,               \* battery.LOW_BATTERY_THRESHOLD
    travel_ticks_remaining,      \* DroneEdge.travel_ticks_remaining
    charging_started_log_sent,   \* DroneEdge.charging_started_log_sent
    stop,                        \* DroneEdge._stop
    fwd_pc,                      \* position of _forward_loop
    last_known_returning_status, \* local of _forward_loop
    batch,                       \* local of _forward_loop
    anomalies,                   \* local of _forward_loop
    readings_q,                  \* DroneEdge.readings_q
    built,                       \* reports constructed by _send_report (put on gui_q)
    received,                    \* payloads the collector has received, in order
    unsent,                      \* the unsent/ directory: file name -> content
    now,                         \* the clock read by utcnow() and time.time()
    reachable,                   \* whether a connection to the collector succeeds
    retry_pc,                    \* position of _retry_unsent_reports_loop
    retry_todo,                  \* files of list(glob("*.json")) not yet visited
    retry_log,                   \* last log record of the retry loop: file and outcome
    server_pc,                   \* position of _run_server
    arrived,                     \* readings enqueued so far
    ticks,                       \* tick intervals a specification counts: those elapsed,
                                 \* or the draining ticks since the node began to return
    op_call,                     \* last operator call and its return value
    loaded,                      \* battery.level as read by a thread that has
                                 \* not yet stored its update
    monitor_pc,                  \* position of _monitor_battery
    session                      \* one sensor connection: its state, what the
                                 \* handler's buffer holds, the bytes the sensor
                                 \* writes, how much was received and the log

batteryVars == <<level, returning, low_threshold>>
nodeVars == <<travel_ticks_remaining, charging_started_log_sent, stop>>
fwdVars == <<fwd_pc, last_known_returning_status, batch, anomalies, readings_q>>
deliveryVars == <<built, received, unsent, now>>
retryVars == <<retry_pc, retry_todo, retry_log>>
envVars == <<reachable, server_pc, arrived, ticks, op_call>>
vars == <<batteryVars, nodeVars, fwdVars, deliveryVars, retryVars, envVars, loaded, session, monitor_pc>>

Min(a, b) == IF a < b THEN a ELSE b
Max(a, b) == IF a > b THEN a ELSE b

\* ------------------------------------------------------------------ Battery
\* Battery.tick, the level update
TickLevel_unclamped(lv, charging) ==
    IF charging THEN lv + RECHARGE_RATE ELSE lv - DRAIN_RATE

TickLevel(lv, charging) ==
    IF charging THEN Min(100, lv + RECHARGE_RATE) ELSE Max(0, lv - DRAIN_RATE)

\* a re-evaluation without hysteresis: returning follows the low threshold
TickReturning_no_hysteresis(ret, lv, low) == lv < low

\* Battery.tick, the re-evaluation of returning after the level update
TickReturning(ret, lv, low) ==
    IF ~ret /\ lv < low THEN TRUE
    ELSE IF ret /\ lv >= CRITICAL_BATTERY_THRESHOLD THEN FALSE
    ELSE ret

\* ------------------------------------------------------------ wire records
\* THRESHOLDS
TEMP_RANGE == <<0, 40>>
HUM_RANGE == <<10, 90>>

\* is_anomaly(reading)
is_anomaly_strict(reading) ==
    LET t_ok == TEMP_RANGE[1] < reading.temperature /\ reading.temperature < TEMP_RANGE[2]
        h_ok == HUM_RANGE[1] < reading.humidity /\ reading.humidity < HUM_RANGE[2]
    IN  ~(t_ok /\ h_ok)

is_anomaly(reading) ==
    LET t_ok == TEMP_RANGE[1] <= reading.temperature /\ reading.temperature <= TEMP_RANGE[2]
        h_ok == HUM_RANGE[1] <= reading.humidity /\ reading.humidity <= HUM_RANGE[2]
    IN  ~(t_ok /\ h_ok)

\* is_anomaly raises TypeError when it compares a str with the range bounds
is_anomaly_raises(reading) ==
    reading.types.temperature # "float" \/ reading.types.humidity # "float"

\* a JSON number and a JSON string as they appear in a frame
Num(n) == [number |-> n]
Str(text) == [string |-> text]

\* the Python value json.loads gives for a JSON value, and its type
Payload(v) == IF "number" \in DOMAIN v THEN v.number ELSE v.string
TypeOf(v) == IF "number" \in DOMAIN v THEN "float" ELSE "str"

\* the fields SensorReading's constructor requires and accepts
RequiredFields == {"sensor_id", "temperature", "humidity"}
AcceptedFields == RequiredFields \cup {"timestamp"}

\* the exception SensorReading.from_bytes(raw) raises: json.loads rejects text
\* that is not JSON, the constructor rejects missing and unexpected fields;
\* the values are not looked at
FromBytesRaises(raw) ==
    IF raw.json = "invalid" THEN "JSONDecodeError"
    ELSE IF ~(RequiredFields \subseteq DOMAIN raw.object
              /\ DOMAIN raw.object \subseteq AcceptedFields) THEN "TypeError"
    ELSE "None"

\* a decoder that stamps every reading on arrival
from_bytes_restamped(raw, ts) ==
    [sensor_id |-> Payload(raw.object.sensor_id),
     temperature |-> Payload(raw.object.temperature),
     humidity |-> Payload(raw.object.humidity),
     timestamp |-> ts,
     types |-> [temperature |-> TypeOf(raw.object.temperature),
                humidity |-> TypeOf(raw.object.humidity)]]

\* the reading SensorReading.from_bytes(raw) returns, ts being the default
\* timestamp of a frame without one; each field holds the value of the frame,
\* whatever its type
from_bytes(raw, ts) ==
    [sensor_id |-> Payload(raw.object.sensor_id),
     temperature |-> Payload(raw.object.temperature),
     humidity |-> Payload(raw.object.humidity),
     timestamp |-> IF "timestamp" \in DOMAIN raw.object
                   THEN Payload(raw.object.timestamp) ELSE ts,
     types |-> [temperature |-> TypeOf(raw.object.temperature),
                humidity |-> TypeOf(raw.object.humidity)]]

\* frames a sensor session can carry: a reading in range, a reading out of
\* range, text that is not JSON, a reading without humidity, a reading whose
\* temperature is a string
ValidFrame ==
    [json |-> "object",
     object |-> [sensor_id |-> Str("sensor1"), temperature |-> Num(25), humidity |-> Num(45)]]
AnomalousFrame ==
    [json |-> "object",
     object |-> [sensor_id |-> Str("sensor1"), temperature |-> Num(45), humidity |-> Num(95)]]
NotJsonFrame == [json |-> "invalid"]
MissingFieldFrame ==
    [json |-> "object",
     object |-> [sensor_id |-> Str("sensor1"), temperature |-> Num(25)]]
WrongTypeFrame ==
    [json |-> "object",
     object |-> [sensor_id |-> Str("sensor1"), temperature |-> Str("hot"), humidity |-> Num(45)]]
SessionFrames == {ValidFrame, AnomalousFrame, NotJsonFrame, MissingFieldFrame, WrongTypeFrame}

\* what one recv returns: one or two complete frames
SessionChunks ==
    { <<f>> : f \in SessionFrames } \cup { <<f, g>> : f, g \in SessionFrames }

\* the frame as the sensor sends it as its n-th: SensorReading.to_bytes writes
\* the timestamp of the reading, which grows from one send to the next and is
\* written here as n
Stamped(frame, n) ==
    IF frame.json = "invalid" THEN frame
    ELSE [frame EXCEPT !.object =
              [k \in (DOMAIN frame.object) \cup {"timestamp"} |->
                  IF k = "timestamp" THEN Str(n) ELSE frame.object[k]]]

\* the chunk whose frames are the sensor's frames number n + 1, n + 2, ...
StampedChunk(chunk, n) == [i \in 1..Len(chunk) |-> Stamped(chunk[i], n + i)]

\* the values a sensor sends (sensor_id, temperature, humidity); the timestamp
\* is added when the reading arrives
SensorValues ==
    { [sensor_id |-> "sensor1", temperature |-> 25, humidity |-> 45],
      [sensor_id |-> "sensor2", temperature |-> 45, humidity |-> 95] }

\* the anomaly_event dict built in _forward_loop
AnomalyEvent(reading) ==
    [sensor_id |-> reading.sensor_id,
     val |-> <<reading.temperature, reading.humidity>>,
     ts |-> reading.timestamp]

RECURSIVE SumOf(_, _)
SumOf(readings, field) ==
    IF readings = <<>> THEN 0
    ELSE readings[1][field] + SumOf(Tail(readings), field)

\* a count of the readings instead of the sensors
SensorCount_readings(readings) == Len(readings)

\* len({r.sensor_id for r in valid_readings})
SensorCount(readings) == Cardinality({readings[i].sensor_id : i \in 1..Len(readings)})

\* the DroneReport built in _send_report; an average is kept as the exact
\* quotient sum / count
MakeReport(readings, anomalies_list, ts) ==
    [drone_id |-> "drone1",
     timestamp |-> ts,
     battery_level |-> level,
     status |-> IF returning THEN "returning" ELSE "active",
     avg_temperature |-> [num |-> SumOf(readings, "temperature"), den |-> Len(readings)],
     avg_humidity |-> [num |-> SumOf(readings, "humidity"), den |-> Len(readings)],
     sensor_count |-> SensorCount(readings),
     anomalies |-> anomalies_list]

\* json.dumps(asdict(rpt)): strings and numbers become JSON strings and
\* numbers, the list of anomaly dicts an array of objects
report_json(rpt) ==
    [drone_id |-> Str(rpt.drone_id),
     timestamp |-> Str(rpt.timestamp),
     battery_level |-> Num(rpt.battery_level),
     status |-> Str(rpt.status),
     avg_temperature |-> Num(rpt.avg_temperature),
     avg_humidity |-> Num(rpt.avg_humidity),
     sensor_count |-> Num(rpt.sensor_count),
     anomalies |-> [i \in 1..Len(rpt.anomalies) |->
                       [sensor_id |-> Str(rpt.anomalies[i].sensor_id),
                        val |-> <<Num(rpt.anomalies[i].val[1]), Num(rpt.anomalies[i].val[2])>>,
                        ts |-> Str(rpt.anomalies[i].ts)]]]

\* DroneReport(**json.loads(raw.decode())) in the collector's receiver
report_from_json(obj) ==
    [drone_id |-> Payload(obj.drone_id),
     timestamp |-> Payload(obj.timestamp),
     battery_level |-> Payload(obj.battery_level),
     status |-> Payload(obj.status),
     avg_temperature |-> Payload(obj.avg_temperature),
     avg_humidity |-> Payload(obj.avg_humidity),
     sensor_count |-> Payload(obj.sensor_count),
     anomalies |-> [i \in 1..Len(obj.anomalies) |->
                       [sensor_id |-> Payload(obj.anomalies[i].sensor_id),
                        val |-> <<Payload(obj.anomalies[i].val[1]),
                                  Payload(obj.anomalies[i].val[2])>>,
                        ts |-> Payload(obj.anomalies[i].ts)]]]

\* DroneReport.to_bytes: the JSON text of the record followed by the delimiter
to_bytes(rpt) == <<[json |-> report_json(rpt)], DELIM>>

\* whether file content is what to_bytes produces (one JSON text, then DELIM)
WellFormed(bytes) == Len(bytes) = 2 /\ bytes[2] = DELIM

\* content of a persisted file that is not an encoded report: an empty file
CorruptBytes == <<>>

\* ------------------------------------------------- delivery (_send_report)
\* the directory without file f (Path.unlink)
Unlink(dir, f) == [g \in (DOMAIN dir) \ {f} |-> dir[g]]

\* the directory with file f written (Path.write_bytes)
WriteBytes(dir, f, bytes) == [g \in (DOMAIN dir) \cup {f} |-> IF g = f THEN bytes ELSE dir[g]]

\* _send_report raises out of its except-OSError handler when write_bytes fails
SendRaises(readings, write_ok) == readings # <<>> /\ ~reachable /\ ~write_ok

\* _send_report(readings, anomalies_list).  write_ok: whether write_bytes on
\* the unsent directory succeeds, should it be called.  The clock advances
\* with every read of it.
send_report(readings, anomalies_list, write_ok) ==
    IF readings = <<>>
    THEN UNCHANGED deliveryVars
    ELSE LET rpt == MakeReport(readings, anomalies_list, now)
             report_bytes == to_bytes(rpt)
         IN  /\ built' = Append(built, rpt)
             /\ IF reachable
                THEN /\ received' = Append(received, report_bytes)
                     /\ unsent' = unsent
                     /\ now' = now + 1
                ELSE /\ received' = received
                     /\ unsent' = IF write_ok
                                  THEN WriteBytes(unsent, now + 1, report_bytes)
                                  ELSE unsent
                     /\ now' = now + 2

\* --------------------------------------------- DroneEdge.stop / _run_server
\* a server whose setup failure is only logged
run_server_setup_logged(bind_ok) ==
    /\ server_pc = "setup"
    /\ server_pc' = IF bind_ok THEN "listening" ELSE "done"
    /\ stop' = stop
    /\ UNCHANGED <<batteryVars, travel_ticks_remaining, charging_started_log_sent,
                   fwdVars, deliveryVars, retryVars, reachable, arrived, ticks, op_call, loaded, session, monitor_pc>>

\* _run_server: bind and listen; a failure calls stop()
run_server_setup(bind_ok) ==
    /\ server_pc = "setup"
    /\ IF bind_ok
       THEN server_pc' = "listening" /\ stop' = stop
       ELSE server_pc' = "done" /\ stop' = TRUE
    /\ UNCHANGED <<batteryVars, travel_ticks_remaining, charging_started_log_sent,
                   fwdVars, deliveryVars, retryVars, reachable, arrived, ticks, op_call, loaded, session, monitor_pc>>

\* _run_server: the accept loop leaves once the stop event is set
run_server_exit ==
    /\ server_pc = "listening"
    /\ stop
    /\ server_pc' = "done"
    /\ UNCHANGED <<batteryVars, nodeVars, fwdVars, deliveryVars, retryVars,
                   reachable, arrived, ticks, op_call, loaded, session, monitor_pc>>

\* a queue that hands out the newest reading first
put_front(q, reading) == <<reading>> \o q

\* readings_q.put(reading): the queue is first in, first out
put(q, reading) == Append(q, reading)

\* _sensor_handler: a decoded reading is put on readings_q unless stopping
sensor_handler_put(values) ==
    /\ server_pc = "listening"
    /\ ~stop
    /\ arrived < MaxReadings
    /\ readings_q' = put(readings_q,
                            [sensor_id |-> values.sensor_id,
                             temperature |-> values.temperature,
                             humidity |-> values.humidity,
                             timestamp |-> arrived + 1,
                             types |-> [temperature |-> "float", humidity |-> "float"]])
    /\ arrived' = arrived + 1
    /\ UNCHANGED <<batteryVars, nodeVars, fwd_pc, last_known_returning_status, batch,
                   anomalies, deliveryVars, retryVars, reachable, server_pc, ticks, op_call, loaded, session, monitor_pc>>

\* the handler after a decode failure that closes the connection
session_after_error_close(s, raised) ==
    [s EXCEPT !.state = "closed", !.buffer = <<>>,
              !.log = Append(@, IF raised = "JSONDecodeError" THEN "JSON decode error"
                                ELSE "Error processing sensor data")]

\* the handler after from_bytes raised: the error is logged, the frame is
\* gone from the buffer and the inner loop goes on
session_after_error(s, raised) ==
    [s EXCEPT !.buffer = Tail(@),
              !.log = Append(@, IF raised = "JSONDecodeError" THEN "JSON decode error"
                                ELSE "Error processing sensor data")]

\* _run_server accepts the sensor's connection and starts _sensor_handler
session_accept ==
    /\ server_pc = "listening"
    /\ ~stop
    /\ session.state = "none"
    /\ session' = [session EXCEPT !.state = "open"]
    /\ UNCHANGED <<batteryVars, nodeVars, fwdVars, deliveryVars, retryVars, envVars, loaded, monitor_pc>>

\* a handler whose recv has no timeout and whose loop does not test the stop
\* event
session_recv_from_blocking(chunks) ==
    /\ session.state = "open"
    /\ session.buffer = <<>>
    /\ ~stop
    /\ \E chunk \in chunks :
           /\ session.sent + Len(chunk) <= MaxFrames
           /\ session' = [session EXCEPT !.buffer = StampedChunk(chunk, session.sent),
                                         !.sent = @ + Len(chunk)]
    /\ UNCHANGED <<batteryVars, nodeVars, fwdVars, deliveryVars, retryVars, envVars, loaded, monitor_pc>>

\* _sensor_handler: the outer loop's test and conn.recv returning one of
\* chunks; when the stop event is set the loop is left, at the latest after
\* the 1 s timeout of recv
session_recv_from(chunks) ==
    /\ session.state = "open"
    /\ session.buffer = <<>>
    /\ IF stop
       THEN session' = [session EXCEPT !.state = "closed"]
       ELSE \E chunk \in chunks :
                /\ session.sent + Len(chunk) <= MaxFrames
                /\ session' = [session EXCEPT !.buffer = StampedChunk(chunk, session.sent),
                                              !.sent = @ + Len(chunk)]
    /\ UNCHANGED <<batteryVars, nodeVars, fwdVars, deliveryVars, retryVars, envVars, loaded, monitor_pc>>

session_recv == session_recv_from(SessionChunks)

\* _sensor_handler: recv returns b"" or raises ConnectionResetError
session_end ==
    /\ session.state = "open"
    /\ session.buffer = <<>>
    /\ ~stop
    /\ session' = [session EXCEPT !.state = "closed"]
    /\ UNCHANGED <<batteryVars, nodeVars, fwdVars, deliveryVars, retryVars, envVars, loaded, monitor_pc>>

\* _sensor_handler: one pass of the inner loop over the first frame in buffer
session_frame ==
    /\ session.state = "open"
    /\ session.buffer # <<>>
    /\ IF stop
       THEN /\ session' = [session EXCEPT !.state = "closed", !.buffer = <<>>]
            /\ UNCHANGED <<readings_q, arrived>>
       ELSE LET raw == Head(session.buffer)
                raised == FromBytesRaises(raw)
            IN  IF raised = "None"
                THEN /\ readings_q' = put(readings_q, from_bytes(raw, arrived + 1))
                     /\ arrived' = arrived + 1
                     /\ session' = [session EXCEPT !.buffer = Tail(@),
                                                   !.log = Append(@, "RX")]
                ELSE /\ session' = session_after_error(session, raised)
                     /\ UNCHANGED <<readings_q, arrived>>
    /\ UNCHANGED <<batteryVars, nodeVars, fwd_pc, last_known_returning_status, batch,
                   anomalies, deliveryVars, retryVars, reachable, server_pc, ticks,
                   op_call, loaded, monitor_pc>>

\* ------------------------------------------------------------ _forward_loop
\* the locals of _forward_loop before its loop
forward_loop_start ==
    /\ fwd_pc = "start"
    /\ batch' = <<>>
    /\ anomalies' = <<>>
    /\ last_known_returning_status' = returning
    /\ fwd_pc' = "tick"
    /\ UNCHANGED <<batteryVars, nodeVars, readings_q, deliveryVars, retryVars, envVars, loaded, session, monitor_pc>>

\* a charging decision that ignores the travel countdown
ShouldCharge_on_return(ret, travel) == ret

\* should_charge_this_tick: returning and arrived at the base
ShouldCharge(ret, travel) == ret /\ travel = 0

\* a depletion test that misses the empty battery
Depleted_below_zero(lv) == lv < 0

\* the 0% battery shutdown check after a tick
Depleted(lv) == lv <= 0

\* a loop that reports what it holds as it leaves
leave_loop_flushing ==
    /\ send_report(batch, anomalies, TRUE)
    /\ batch' = <<>>
    /\ anomalies' = <<>>

\* _forward_loop is left, by its while test or by the break after stop():
\* no statement follows the loop, and run() only logs in its finally block
leave_loop == UNCHANGED <<batch, anomalies, deliveryVars>>

\* loop test and battery tick.  elapsed: whether a tick interval has passed
\* since last_battery_tick_time
forward_loop_tick(elapsed) ==
    /\ fwd_pc = "tick"
    /\ IF stop
       THEN /\ fwd_pc' = "done"
            /\ leave_loop
            /\ UNCHANGED <<batteryVars, nodeVars>>
       ELSE IF ~elapsed
       THEN /\ fwd_pc' = "mode"
            /\ UNCHANGED <<batteryVars, nodeVars, batch, anomalies, deliveryVars>>
       ELSE LET traveling == returning /\ travel_ticks_remaining > 0
                should_charge_this_tick == ShouldCharge(returning, travel_ticks_remaining)
                new_level == TickLevel(level, should_charge_this_tick)
            IN  /\ travel_ticks_remaining' =
                      IF traveling THEN travel_ticks_remaining - 1
                      ELSE travel_ticks_remaining
                /\ charging_started_log_sent' =
                      IF should_charge_this_tick THEN TRUE ELSE charging_started_log_sent
                /\ level' = new_level
                /\ returning' = TickReturning(returning, new_level, low_threshold)
                /\ low_threshold' = low_threshold
                /\ IF Depleted(new_level)
                   THEN stop' = TRUE /\ fwd_pc' = "done" /\ leave_loop
                   ELSE /\ stop' = stop /\ fwd_pc' = "mode"
                        /\ UNCHANGED <<batch, anomalies, deliveryVars>>
    /\ UNCHANGED <<last_known_returning_status, readings_q,
                   retryVars, reachable, server_pc, arrived, op_call, loaded, session, monitor_pc>>

\* a flush on becoming active that waits for a full batch
FlushOnActive_full_batch(became_active, queued) ==
    became_active /\ Len(queued) >= FORWARD_BATCH

\* the flush of whatever is queued when the node becomes active
FlushOnActive(became_active, queued) == became_active /\ queued # <<>>

\* status change detection, with the flush on becoming active
forward_loop_mode(write_ok) ==
    /\ fwd_pc = "mode"
    /\ LET current_returning_status == returning
           became_active == last_known_returning_status /\ ~current_returning_status
           starts_returning == ~last_known_returning_status /\ current_returning_status
           flushes == FlushOnActive(became_active, batch)
       IN  /\ IF flushes
              THEN send_report(batch, anomalies, write_ok)
              ELSE UNCHANGED deliveryVars
           /\ IF flushes /\ SendRaises(batch, write_ok)
              THEN /\ fwd_pc' = "raised_OSError"
                   /\ charging_started_log_sent' = FALSE
                   /\ UNCHANGED <<batch, anomalies, travel_ticks_remaining,
                                  last_known_returning_status>>
              ELSE /\ fwd_pc' = "get"
                   /\ batch' = IF flushes THEN <<>> ELSE batch
                   /\ anomalies' = IF flushes THEN <<>> ELSE anomalies
                   /\ travel_ticks_remaining' =
                         IF starts_returning THEN TRAVEL_TICKS ELSE travel_ticks_remaining
                   /\ charging_started_log_sent' =
                         IF became_active \/ starts_returning THEN FALSE
                         ELSE charging_started_log_sent
                   /\ last_known_returning_status' = current_returning_status
    /\ UNCHANGED <<batteryVars, stop, readings_q, retryVars, envVars, loaded, session, monitor_pc>>

\* an anomaly list that takes new records at its front
NoteAnomaly_front(list, reading) ==
    IF is_anomaly(reading) THEN <<AnomalyEvent(reading)>> \o list ELSE list

\* anomalies.append(anomaly_event) for an anomalous reading
NoteAnomaly(list, reading) ==
    IF is_anomaly(reading) THEN Append(list, AnomalyEvent(reading)) ELSE list

\* a loop that drops the readings it dequeues while returning
KeepReading_active_only(list, reading, ret) == IF ret THEN list ELSE Append(list, reading)

\* batch.append(reading), in returning mode (before the continue) and in
\* active mode alike
KeepReading(list, reading, ret) == Append(list, reading)

\* readings_q.get(timeout=1) and the appends to batch and anomalies
forward_loop_get ==
    /\ fwd_pc = "get"
    /\ IF readings_q = <<>>
       THEN /\ fwd_pc' = "flush"
            /\ UNCHANGED <<batch, anomalies, readings_q>>
       ELSE LET reading == Head(readings_q)
            IN  IF is_anomaly_raises(reading)
                THEN /\ readings_q' = Tail(readings_q)
                     /\ fwd_pc' = "raised_TypeError"
                     /\ UNCHANGED <<batch, anomalies>>
                ELSE /\ readings_q' = Tail(readings_q)
                     /\ anomalies' = NoteAnomaly(anomalies, reading)
                     /\ batch' = KeepReading(batch, reading, returning)
                     /\ fwd_pc' = IF returning THEN "tick" ELSE "flush"
    /\ UNCHANGED <<batteryVars, nodeVars, last_known_returning_status,
                   deliveryVars, retryVars, envVars, loaded, session, monitor_pc>>

\* the flush of a full batch while active
forward_loop_flush(write_ok) ==
    /\ fwd_pc = "flush"
    /\ LET flushes == Len(batch) >= FORWARD_BATCH /\ ~returning
       IN  /\ IF flushes
              THEN send_report(batch, anomalies, write_ok)
              ELSE UNCHANGED deliveryVars
           /\ IF flushes /\ SendRaises(batch, write_ok)
              THEN /\ fwd_pc' = "raised_OSError"
                   /\ UNCHANGED <<batch, anomalies>>
              ELSE /\ fwd_pc' = "tick"
                   /\ batch' = IF flushes THEN <<>> ELSE batch
                   /\ anomalies' = IF flushes THEN <<>> ELSE anomalies
    /\ UNCHANGED <<batteryVars, nodeVars, last_known_returning_status, readings_q,
                   retryVars, envVars, loaded, session, monitor_pc>>

\* ------------------------------------------------------------ operator calls
\* a drain that does not stop at an empty battery
DrainedLevel_unclamped(lv, amount) == lv - amount

\* the level after manual_drain_battery(amount), amount > 0
DrainedLevel(lv, amount) == Max(0, lv - amount)

\* manual_drain_battery(amount) with battery.level read as lv in line 331
manual_drain_update(lv, amount) ==
    /\ op_call' = [op |-> "manual_drain_battery", arg |-> amount, ret |-> "None"]
    /\ IF amount <= 0
       THEN UNCHANGED <<batteryVars, travel_ticks_remaining, charging_started_log_sent>>
       ELSE LET new_level == DrainedLevel(lv, amount)
            IN  /\ level' = new_level
                /\ low_threshold' = low_threshold
                /\ IF new_level < low_threshold /\ ~returning
                   THEN /\ returning' = TRUE
                        /\ travel_ticks_remaining' =
                              IF travel_ticks_remaining = 0 THEN TRAVEL_TICKS
                              ELSE travel_ticks_remaining
                        /\ charging_started_log_sent' =
                              IF travel_ticks_remaining = 0 THEN FALSE
                              ELSE charging_started_log_sent
                   ELSE IF new_level >= CRITICAL_BATTERY_THRESHOLD /\ returning
                   THEN /\ returning' = FALSE
                        /\ travel_ticks_remaining' = 0
                        /\ charging_started_log_sent' = charging_started_log_sent
                   ELSE UNCHANGED <<returning, travel_ticks_remaining,
                                    charging_started_log_sent>>
    /\ UNCHANGED <<stop, fwdVars, deliveryVars, retryVars,
                   reachable, server_pc, arrived>>

\* DroneEdge.manual_drain_battery(amount), run without interruption
manual_drain_battery(amount) ==
    /\ manual_drain_update(level, amount)
    /\ UNCHANGED <<ticks, loaded, session, monitor_pc>>

\* a range test that lets every percentage through
ThresholdInRange_percent(new_threshold) == 0 <= new_threshold /\ new_threshold <= 100

\* the range test of set_low_battery_threshold
ThresholdInRange(new_threshold) ==
    MIN_THRESHOLD <= new_threshold /\ new_threshold <= MAX_THRESHOLD

\* a test against the threshold the battery holds instead of the new one
ThresholdStartsReturn_stored(ret, lv, new_threshold) == ~ret /\ lv < low_threshold

\* whether set_low_battery_threshold puts the node into returning mode
ThresholdStartsReturn(ret, lv, new_threshold) == ~ret /\ lv < new_threshold

\* DroneEdge.set_low_battery_threshold(new_threshold)
threshold_update(new_threshold) ==
    IF ~ThresholdInRange(new_threshold)
    THEN /\ op_call' = [op |-> "set_low_battery_threshold", arg |-> new_threshold,
                        ret |-> "False"]
         /\ UNCHANGED <<batteryVars, nodeVars, fwdVars, deliveryVars, retryVars,
                        reachable, server_pc, arrived, loaded, session, monitor_pc>>
    ELSE /\ op_call' = [op |-> "set_low_battery_threshold", arg |-> new_threshold,
                        ret |-> "None"]
         /\ IF ThresholdStartsReturn(returning, level, new_threshold)
            THEN /\ returning' = TRUE
                 /\ travel_ticks_remaining' =
                       IF travel_ticks_remaining = 0 THEN TRAVEL_TICKS
                       ELSE travel_ticks_remaining
                 /\ charging_started_log_sent' =
                       IF travel_ticks_remaining = 0 THEN FALSE
                       ELSE charging_started_log_sent
            ELSE UNCHANGED <<returning, travel_ticks_remaining, charging_started_log_sent>>
         /\ UNCHANGED <<level, low_threshold, stop, fwdVars, deliveryVars, retryVars,
                        reachable, server_pc, arrived, loaded, session, monitor_pc>>

set_low_battery_threshold(new_threshold) ==
    threshold_update(new_threshold) /\ UNCHANGED ticks

\* --------------------------------------------------------- _monitor_battery
\* the loop test and the log lines
monitor_check ==
    /\ monitor_pc = "check"
    /\ monitor_pc' = IF stop THEN "done" ELSE "sleeping"
    /\ UNCHANGED <<batteryVars, nodeVars, fwdVars, deliveryVars, retryVars, envVars,
                   loaded, session>>

\* time.sleep(BATTERY_CHECK_INTERVAL) returns
monitor_wake ==
    /\ monitor_pc = "sleeping"
    /\ monitor_pc' = "check"
    /\ UNCHANGED <<batteryVars, nodeVars, fwdVars, deliveryVars, retryVars, envVars,
                   loaded, session>>

\* ------------------------------------------------ _retry_unsent_reports_loop
\* the loop test, then time.sleep(UNSENT_REPORTS_RETRY_INTERVAL)
retry_loop_sleep ==
    /\ retry_pc = "top"
    /\ retry_pc' = IF stop THEN "done" ELSE "sleeping"
    /\ UNCHANGED <<batteryVars, nodeVars, fwdVars, deliveryVars, retry_todo, retry_log,
                   envVars, loaded, session, monitor_pc>>

\* a scan that leaves the loop when the directory is empty
retry_loop_scan_break ==
    /\ retry_pc = "sleeping"
    /\ IF DOMAIN unsent = {}
       THEN retry_pc' = "done" /\ retry_todo' = {}
       ELSE retry_pc' = "cycle" /\ retry_todo' = DOMAIN unsent
    /\ UNCHANGED <<batteryVars, nodeVars, fwdVars, deliveryVars, retry_log, envVars, loaded, session, monitor_pc>>

\* after the sleep: skip an empty directory, else list(glob("*.json"))
retry_loop_scan ==
    /\ retry_pc = "sleeping"
    /\ IF DOMAIN unsent = {}
       THEN retry_pc' = "top" /\ retry_todo' = {}
       ELSE retry_pc' = "cycle" /\ retry_todo' = DOMAIN unsent
    /\ UNCHANGED <<batteryVars, nodeVars, fwdVars, deliveryVars, retry_log, envVars, loaded, session, monitor_pc>>

\* how the try block of the for loop ends for report_file
resend_outcome(report_file) ==
    IF report_file \notin DOMAIN unsent THEN "vanished"
    ELSE IF reachable THEN "resent"
    ELSE "failed"

\* a resend that never deletes the file
dir_after_resend_keep(dir, report_file, outcome) == dir

\* a resend that deletes the file on a connection failure as well
dir_after_resend_drop(dir, report_file, outcome) ==
    IF outcome \in {"resent", "failed"} THEN Unlink(dir, report_file) ELSE dir

\* the directory after the try block: unlink only follows a successful send
dir_after_resend(dir, report_file, outcome) ==
    IF outcome = "resent" THEN Unlink(dir, report_file) ELSE dir

\* one pass of the for loop, on report_file
retry_loop_file(report_file) ==
    /\ retry_pc = "cycle"
    /\ report_file \in retry_todo
    /\ IF stop
       THEN /\ retry_todo' = {}
            /\ retry_pc' = "top"
            /\ UNCHANGED <<received, unsent, retry_log>>
       ELSE /\ retry_todo' = retry_todo \ {report_file}
            /\ retry_pc' = IF retry_todo \ {report_file} = {} THEN "top" ELSE "cycle"
            /\ LET outcome == resend_outcome(report_file)
               IN  /\ retry_log' = [file |-> report_file, outcome |-> outcome]
                   /\ received' = IF outcome = "resent"
                                  THEN Append(received, unsent[report_file])
                                  ELSE received
                   /\ unsent' = dir_after_resend(unsent, report_file, outcome)
    /\ UNCHANGED <<batteryVars, nodeVars, fwdVars, built, now, envVars, loaded, session, monitor_pc>>

\* -------------------------------------------------------------- environment
\* the collector becomes reachable or unreachable
connectivity_change ==
    /\ reachable' = ~reachable
    /\ UNCHANGED <<batteryVars, nodeVars, fwdVars, deliveryVars, retryVars,
                   server_pc, arrived, ticks, op_call, loaded, session, monitor_pc>>

\* ------------------------------------------------------------ specifications
EmptyDir == [g \in {} |-> <<>>]

\* a report left in unsent/ by an earlier run of the node
OldReport ==
    [drone_id |-> "drone1", timestamp |-> 0, battery_level |-> 100, status |-> "active",
     avg_temperature |-> [num |-> 125, den |-> 5],
     avg_humidity |-> [num |-> 225, den |-> 5],
     sensor_count |-> 1, anomalies |-> <<>>]

\* what unsent/ may hold when the node starts (mkdir(exist_ok=True) keeps it)
InitialDirs ==
    { EmptyDir,
      [g \in {0} |-> CorruptBytes],
      [g \in {0} |-> to_bytes(OldReport)] }

\* DroneEdge.__init__ and Battery.__init__
InitNode ==
    /\ level = START_LEVEL
    /\ returning = FALSE
    /\ low_threshold = DEFAULT_LOW_THRESHOLD
    /\ travel_ticks_remaining = 0
    /\ charging_started_log_sent = FALSE
    /\ stop = FALSE
    /\ fwd_pc = "start"
    /\ last_known_returning_status = FALSE
    /\ batch = <<>>
    /\ anomalies = <<>>
    /\ readings_q = <<>>
    /\ built = <<>>
    /\ received = <<>>
    /\ now = 1
    /\ retry_pc = "top"
    /\ retry_todo = {}
    /\ retry_log = [file |-> -1, outcome |-> "none"]
    /\ server_pc = "setup"
    /\ arrived = 0
    /\ ticks = 0
    /\ op_call = [op |-> "none", arg |-> 0, ret |-> "None"]
    /\ loaded = [tick |-> <<>>, drain |-> <<>>]
    /\ session = [state |-> "none", buffer |-> <<>>, stream |-> <<>>, sent |-> 0,
                  log |-> <<>>]
    /\ monitor_pc = "check"

\* the node with its battery and the operator calls; no sensor is connected
InitBattery ==
    /\ InitNode
    /\ unsent = EmptyDir
    /\ reachable = TRUE

battery_tick == \E elapsed \in BOOLEAN : forward_loop_tick(elapsed) /\ UNCHANGED ticks
battery_mode == \E write_ok \in BOOLEAN : forward_loop_mode(write_ok)
battery_flush == \E write_ok \in BOOLEAN : forward_loop_flush(write_ok)
operator_drain == \E amount \in DrainAmounts : manual_drain_battery(amount)
operator_threshold == \E v \in ThresholdInputs : set_low_battery_threshold(v)

NextBattery ==
    \/ forward_loop_start
    \/ battery_tick
    \/ battery_mode
    \/ forward_loop_get
    \/ battery_flush
    \/ operator_drain
    \/ operator_threshold

SpecBattery == InitBattery /\ [][NextBattery]_vars

\* the node with sensors, collector and retry loop; the run spans at most
\* MaxTicks tick intervals and MaxReadings readings
InitDelivery ==
    /\ InitNode
    /\ unsent \in InitialDirs
    /\ reachable \in BOOLEAN

server_setup == \E bind_ok \in BOOLEAN : run_server_setup(bind_ok)
\* the sensor of the delivery specification sends one out-of-range value
DeliveryValues == { v \in SensorValues : is_anomaly(v) }
\* an operator drain that empties the battery
DeliveryDrains == {100}

sensor_put == \E values \in DeliveryValues : sensor_handler_put(values)
delivery_drain == \E amount \in DeliveryDrains : manual_drain_battery(amount)
delivery_tick ==
    \E elapsed \in BOOLEAN :
        /\ elapsed => ticks < MaxTicks
        /\ forward_loop_tick(elapsed)
        /\ ticks' = IF elapsed /\ ~stop THEN ticks + 1 ELSE ticks
delivery_mode == \E write_ok \in BOOLEAN : forward_loop_mode(write_ok)
delivery_flush == \E write_ok \in BOOLEAN : forward_loop_flush(write_ok)
retry_file == \E report_file \in retry_todo : retry_loop_file(report_file)

NextDelivery ==
    \/ server_setup
    \/ run_server_exit
    \/ sensor_put
    \/ forward_loop_start
    \/ delivery_tick
    \/ delivery_mode
    \/ forward_loop_get
    \/ delivery_flush
    \/ retry_loop_sleep
    \/ retry_loop_scan
    \/ retry_file
    \/ connectivity_change
    \/ delivery_drain

SpecDelivery == InitDelivery /\ [][NextDelivery]_vars

\* the delivery path alone, the retry loop's thread being scheduled fairly
live_sensor_put ==
    \E values \in DeliveryValues : arrived < MaxLiveReadings /\ sensor_handler_put(values)

NextRetry ==
    \/ server_setup
    \/ live_sensor_put
    \/ forward_loop_start
    \/ delivery_tick
    \/ delivery_mode
    \/ forward_loop_get
    \/ delivery_flush
    \/ retry_loop_sleep
    \/ retry_loop_scan
    \/ retry_file
    \/ connectivity_change

SpecRetryFair ==
    /\ InitDelivery
    /\ [][NextRetry]_vars
    /\ WF_vars(retry_loop_sleep)
    /\ WF_vars(retry_loop_scan)
    /\ WF_vars(retry_file)

\* --------------------------------------------------- properties of delivery
\* names a persisted file can have within the bounds
FileNames == 0 .. (2 * MaxLiveReadings)

\* the collector has received exactly these bytes on some connection
Delivered(bytes) == \E i \in 1..Len(received) : received[i] = bytes

\* the persisted files that hold these bytes
FilesOf(bytes) == { f \in DOMAIN unsent : unsent[f] = bytes }

\* file f holds the encoded bytes of a report built by this node
PersistedReport(f) ==
    /\ f \in DOMAIN unsent
    /\ \E i \in 1..Len(built) : unsent[f] = to_bytes(built[i])

\* this step is the retry loop's pass over file f (not the break on stop)
RetryVisits(f) ==
    /\ retry_pc = "cycle"
    /\ ~stop
    /\ f \in retry_todo
    /\ retry_todo' = retry_todo \ {f}

\* this step is a call of _send_report that built a report
SendStep == Len(built') = Len(built) + 1

\* C1: under fair scheduling of the retry loop, a report persisted after a
\* failed delivery is eventually re-sent and its file deleted, unless the
\* collector is unreachable again or the node is shut down in the meantime
C1_EventualDelivery ==
    \A f \in FileNames :
        PersistedReport(f) ~>
            \/ (f \notin DOMAIN unsent /\ retry_log = [file |-> f, outcome |-> "resent"])
            \/ ~reachable
            \/ stop

C1_Witness ==
    /\ retry_log = [file |-> 2, outcome |-> "resent"]
    /\ 2 \notin DOMAIN unsent
    /\ Len(built) = 1
    /\ received = <<to_bytes(built[1])>>

\* C2: every built report is either delivered to the collector and not
\* persisted, or persisted as exactly one file and not delivered
C2_ExactlyOnePlace ==
    \A i \in 1..Len(built) :
        LET bytes == to_bytes(built[i])
        IN  \/ Delivered(bytes) /\ FilesOf(bytes) = {}
            \/ ~Delivered(bytes) /\ Cardinality(FilesOf(bytes)) = 1

\* C3: a call of _send_report returns normally; with the collector reachable
\* it leaves the directory alone, otherwise it adds exactly one file holding
\* the encoded report and leaves every other file as it was
C3_SendOrStore ==
    [][SendStep =>
        LET bytes == to_bytes(built'[Len(built')])
            added == (DOMAIN unsent') \ (DOMAIN unsent)
        IN  /\ fwd_pc' # "raised_OSError"
            /\ reachable => unsent' = unsent
            /\ ~reachable =>
                  /\ Cardinality(added) = 1
                  /\ \A f \in added : unsent'[f] = bytes
                  /\ \A g \in DOMAIN unsent : g \in DOMAIN unsent' /\ unsent'[g] = unsent[g]
      ]_vars

\* C4: a retry cycle lists every persisted file, and its pass over a file with
\* the collector reachable sends exactly the stored bytes and deletes the
\* file, leaving no file with those bytes
C4_RetryDelivers ==
    [][/\ (retry_pc = "sleeping" /\ retry_pc' = "cycle") => retry_todo' = DOMAIN unsent
       /\ \A f \in retry_todo :
             (RetryVisits(f) /\ f \in DOMAIN unsent /\ reachable) =>
                 /\ received' = Append(received, unsent[f])
                 /\ f \notin DOMAIN unsent'
                 /\ \A g \in DOMAIN unsent' : unsent'[g] # unsent[f]
      ]_vars

C4_Witness ==
    /\ retry_log = [file |-> 4, outcome |-> "resent"]
    /\ DOMAIN unsent = {}
    /\ Len(built) = 2
    /\ Delivered(to_bytes(built[2]))

\* C5: a step of the retry loop taken while the collector is unreachable
\* leaves the persisted files as they are: none removed, none added, none
\* rewritten
C5_FailedRetryIdempotent ==
    [][((retry_pc' # retry_pc \/ retry_todo' # retry_todo \/ retry_log' # retry_log)
        /\ ~reachable) => unsent' = unsent]_vars

C5_Witness ==
    /\ ~reachable
    /\ retry_log = [file |-> 2, outcome |-> "failed"]
    /\ PersistedReport(2)
    /\ retry_pc = "top"

\* C6: the retry loop's pass over a file whose content is not an encoded
\* report deletes the file, whether or not the collector is reachable
C6_CorruptDeleted ==
    [][\A f \in retry_todo :
          (RetryVisits(f) /\ f \in DOMAIN unsent /\ ~WellFormed(unsent[f])) =>
              f \notin DOMAIN unsent'
      ]_vars

\* C7: no error of persisting or retrying reaches the aggregation loop
C7_ErrorsContained == fwd_pc # "raised_OSError"

\* ------------------------------------------------ properties of the battery
\* C8: returning goes from false to true only in a step that ends with the
\* level below the battery's low threshold, and from true to false only in
\* a step that ends with the level at or above the critical threshold
C8_Hysteresis ==
    [][/\ (~returning /\ returning') => level' < low_threshold'
       /\ (returning /\ ~returning') => level' >= CRITICAL_BATTERY_THRESHOLD
      ]_vars

\* C9: a call set_low_battery_threshold(v) with 5 <= v <= 80 leaves the
\* battery's low threshold equal to v
C9_ThresholdStored ==
    [][\A v \in ThresholdInputs :
          (MIN_THRESHOLD <= v /\ v <= MAX_THRESHOLD /\ set_low_battery_threshold(v)) =>
              low_threshold' = v
      ]_vars

\* C10: a call set_low_battery_threshold(v) with v < 5 or v > 80 returns
\* False and leaves level, returning, the low threshold and the travel
\* countdown as they were
C10_InvalidThresholdRejected ==
    [][\A v \in ThresholdInputs :
          ((v < MIN_THRESHOLD \/ v > MAX_THRESHOLD) /\ set_low_battery_threshold(v)) =>
              /\ op_call'.ret = "False"
              /\ UNCHANGED <<level, returning, low_threshold, travel_ticks_remaining>>
      ]_vars

C10_Witness ==
    /\ op_call = [op |-> "set_low_battery_threshold", arg |-> 81, ret |-> "False"]
    /\ level < 81
    /\ ~returning
    /\ travel_ticks_remaining = 0

\* C11: a call set_low_battery_threshold(v) with 5 <= v <= 80, made while the
\* node is not returning and level < v, sets returning in that very step and
\* starts the travel countdown
C11_ThresholdStartsReturn ==
    [][\A v \in ThresholdInputs :
          (/\ MIN_THRESHOLD <= v /\ v <= MAX_THRESHOLD
           /\ ~returning /\ level < v
           /\ set_low_battery_threshold(v)) =>
              /\ returning'
              /\ level' = level
              /\ travel_ticks_remaining' = TRAVEL_TICKS
      ]_vars

C11_Witness ==
    /\ op_call = [op |-> "set_low_battery_threshold", arg |-> 50, ret |-> "None"]
    /\ returning
    /\ level >= low_threshold
    /\ level < 50
    /\ travel_ticks_remaining = TRAVEL_TICKS
    /\ ~last_known_returning_status

\* C12: a call manual_drain_battery(amount) with amount > 0 sets level to
\* max(0, level - amount) in that step and, when the new level is below the
\* battery's low threshold and the node was not returning, sets returning and
\* starts the travel countdown
C12_ManualDrain ==
    [][\A amount \in DrainAmounts :
          (amount > 0 /\ manual_drain_battery(amount)) =>
              /\ level' = (IF level - amount > 0 THEN level - amount ELSE 0)
              /\ (level' < low_threshold /\ ~returning) =>
                     (returning' /\ travel_ticks_remaining' = TRAVEL_TICKS)
      ]_vars

C12_Witness ==
    /\ op_call = [op |-> "manual_drain_battery", arg |-> 35, ret |-> "None"]
    /\ level = 0
    /\ returning
    /\ travel_ticks_remaining = TRAVEL_TICKS
    /\ ~last_known_returning_status
    /\ ~stop

\* ------------------------------------------------------- the battery alone
\* start levels of a Battery that is ticked on its own
StartLevels == {25, START_LEVEL}

\* Battery(start, low_threshold=20), the node around it idle
InitTick ==
    /\ level \in StartLevels
    /\ returning = FALSE
    /\ low_threshold = DEFAULT_LOW_THRESHOLD
    /\ travel_ticks_remaining = 0
    /\ charging_started_log_sent = FALSE
    /\ stop = FALSE
    /\ fwd_pc = "start"
    /\ last_known_returning_status = FALSE
    /\ batch = <<>>
    /\ anomalies = <<>>
    /\ readings_q = <<>>
    /\ built = <<>>
    /\ received = <<>>
    /\ unsent = EmptyDir
    /\ now = 1
    /\ reachable = TRUE
    /\ retry_pc = "top"
    /\ retry_todo = {}
    /\ retry_log = [file |-> -1, outcome |-> "none"]
    /\ server_pc = "setup"
    /\ arrived = 0
    /\ ticks = 0
    /\ op_call = [op |-> "none", arg |-> 0, ret |-> "None"]
    /\ loaded = [tick |-> <<>>, drain |-> <<>>]
    /\ session = [state |-> "none", buffer |-> <<>>, stream |-> <<>>, sent |-> 0,
                  log |-> <<>>]
    /\ monitor_pc = "check"

\* Battery.tick(charging)
battery_alone_tick(charging) ==
    /\ level' = TickLevel(level, charging)
    /\ returning' = TickReturning(returning, TickLevel(level, charging), low_threshold)
    /\ UNCHANGED <<low_threshold, nodeVars, fwdVars, deliveryVars, retryVars, envVars, loaded, session, monitor_pc>>

tick_draining == battery_alone_tick(FALSE)
tick_charging == battery_alone_tick(TRUE)

NextTick ==
    \/ tick_draining
    \/ tick_charging

SpecTick == InitTick /\ [][NextTick]_vars

\* C13: under ticks alone with low threshold 20 and critical threshold 90, a
\* battery that is not returning becomes returning exactly at a tick that
\* leaves the level below 20, and a returning battery stays returning at
\* every tick that leaves the level below 90 and stops returning at a tick
\* that leaves it at 90 or more
C13_TickHysteresis ==
    [][returning' = (IF returning THEN level' < 90 ELSE level' < 20)]_vars

C13_Witness ==
    /\ returning
    /\ level = 89

\* ------------------------------------------- the node without operator calls
scenario_tick ==
    \E elapsed \in BOOLEAN :
        /\ elapsed => ticks < MaxScenarioTicks
        /\ forward_loop_tick(elapsed)
        /\ ticks' = IF elapsed /\ ~stop THEN ticks + 1 ELSE ticks

NextScenario ==
    \/ forward_loop_start
    \/ scenario_tick
    \/ battery_mode
    \/ forward_loop_get
    \/ battery_flush

SpecScenario == InitBattery /\ [][NextScenario]_vars

\* the level the scenario of C14 gives after t ticks, t <= 37
ScenarioLevel(t) ==
    IF t <= 29 THEN START_LEVEL - DRAIN_RATE * t
    ELSE START_LEVEL - DRAIN_RATE * 29 + RECHARGE_RATE * (t - 29)

\* C14: from level 100 with threshold 20 and no operator call, ticks 1 to 29
\* drain 3 each and ticks 30 to 37 charge 10 each; returning is false through
\* tick 26, becomes true at tick 27 (level 19), where the travel countdown is
\* set to 2, stays true through tick 36 and is false again at tick 37, the
\* first tick that leaves the level at 90 or more
C14_Scenario ==
    ticks <= 37 =>
        /\ level = ScenarioLevel(ticks)
        /\ returning = (27 <= ticks /\ ticks <= 36)
        /\ (ticks = 27 /\ fwd_pc # "mode") => travel_ticks_remaining = TRAVEL_TICKS
        /\ ticks = 28 => travel_ticks_remaining = 1
        /\ (29 <= ticks /\ ticks <= 36) => travel_ticks_remaining = 0
        /\ (ticks = 27 \/ ticks = 36) => level < 90
        /\ ticks = 37 => level >= 90

C14_Witness ==
    /\ ticks = 37
    /\ level = 93
    /\ ~returning
    /\ fwd_pc = "get"
    /\ ~last_known_returning_status

\* C15: a battery tick of the node sets level to min(100, level + recharge_rate)
\* when charging and to max(0, level - drain_rate) otherwise, and in every
\* reachable state, after any sequence of ticks, manual drains and threshold
\* changes, the level is an integer from 0 to 100
C15_LevelInRange ==
    /\ [](level \in 0..100)
    /\ [][(~stop /\ forward_loop_tick(TRUE)) =>
              level' = IF returning /\ travel_ticks_remaining = 0
                       THEN Min(100, level + RECHARGE_RATE)
                       ELSE Max(0, level - DRAIN_RATE)
         ]_vars

\* after a manual drain, a draining tick on the way back leaves the level at 0
\* and the loop shuts down
C15_Witness ==
    /\ level = 0
    /\ stop
    /\ fwd_pc = "done"
    /\ op_call.op = "manual_drain_battery"
    /\ returning
    /\ travel_ticks_remaining = 1

\* --------------------------------------------- the battery with a fair loop
\* the forward loop thread keeps running, and the tick interval elapses again
\* and again while it runs; operator drains may or may not happen
\* the operator drain of the fair battery
FairDrains == {35}
fair_drain == \E amount \in FairDrains : manual_drain_battery(amount)

NextBatteryFair ==
    \/ forward_loop_start
    \/ battery_tick
    \/ battery_mode
    \/ forward_loop_get
    \/ battery_flush
    \/ fair_drain

SpecBatteryFair ==
    /\ InitBattery
    /\ [][NextBatteryFair]_vars
    /\ WF_vars(forward_loop_start)
    /\ SF_vars(forward_loop_tick(TRUE) /\ UNCHANGED ticks)
    /\ WF_vars(battery_mode)
    /\ WF_vars(forward_loop_get)
    /\ WF_vars(battery_flush)

\* C16: whenever the battery level reaches 0, by a battery tick or by a manual
\* drain, the node eventually sets the shutdown signal
C16_DepletedShutsDown == (level = 0) ~> stop

\* ----------------------------- sensors and the forward loop over a recharge
\* readings arrive while the battery runs through its first cycle; reports
\* that cannot be delivered are persisted and stay in unsent/
NextModeFlush ==
    \/ server_setup
    \/ live_sensor_put
    \/ forward_loop_start
    \/ scenario_tick
    \/ battery_mode
    \/ forward_loop_get
    \/ battery_flush
    \/ connectivity_change

SpecModeFlush == InitBattery /\ [][NextModeFlush]_vars

\* this step is the status change detection of the forward loop
ModeStep == fwd_pc = "mode" /\ fwd_pc' # "mode"

\* C17: the step that takes the node from active to returning and the loop's
\* detection of it build no report and keep the batch, whatever its size; the
\* detection of the next change from returning to active builds exactly one
\* report over all batched readings, below the size threshold or not, and
\* empties the batch
C17_ModeFlush ==
    [][/\ (~returning /\ returning') => (built' = built /\ batch' = batch)
       /\ (ModeStep /\ ~last_known_returning_status /\ returning) =>
              (built' = built /\ batch' = batch /\ last_known_returning_status')
       /\ (ModeStep /\ last_known_returning_status /\ ~returning /\ batch # <<>>) =>
              /\ built' = Append(built, MakeReport(batch, anomalies, now))
              /\ built'[Len(built')].avg_temperature.den = Len(batch)
              /\ batch' = <<>>
              /\ anomalies' = <<>>
      ]_vars

\* three readings, batched before the return, were reported in one report on
\* becoming active and the batch is empty
C17_Witness ==
    /\ fwd_pc = "get"
    /\ ~returning
    /\ ~last_known_returning_status
    /\ arrived = 3
    /\ readings_q = <<>>
    /\ batch = <<>>
    /\ Len(built) = 1
    /\ built[1].avg_temperature.den = 3
    /\ built[1].status = "active"
    /\ built[1].battery_level >= CRITICAL_BATTERY_THRESHOLD

\* ------------------------------------- the battery under thread interleaving
\* The forward loop's thread and the operator's thread run without a lock.
\* Each of "self.level = max(0, self.level - self.drain_rate)" and
\* "self.battery.level = max(0, self.battery.level - amount)" reads the level
\* and stores the result later; the other thread can run in between.

\* the operator drains by a positive amount
RaceDrains == { amount \in DrainAmounts : amount > 0 }

\* the loop passes the battery tick: stopping, or no tick interval elapsed
race_tick_skip ==
    /\ loaded.tick = <<>>
    /\ forward_loop_tick(FALSE)
    /\ UNCHANGED ticks

\* the loop's tick up to the read of self.level in Battery.tick
race_tick_load ==
    /\ fwd_pc = "tick"
    /\ ~stop
    /\ ticks < MaxRaceTicks
    /\ LET traveling == returning /\ travel_ticks_remaining > 0
           should_charge_this_tick == ShouldCharge(returning, travel_ticks_remaining)
       IN  /\ travel_ticks_remaining' =
                 IF traveling THEN travel_ticks_remaining - 1 ELSE travel_ticks_remaining
           /\ charging_started_log_sent' =
                 IF should_charge_this_tick THEN TRUE ELSE charging_started_log_sent
           /\ loaded' = [loaded EXCEPT !.tick = <<level, should_charge_this_tick>>]
    /\ fwd_pc' = "tick_store"
    /\ ticks' = ticks + 1
    /\ UNCHANGED <<monitor_pc, session, batteryVars, stop, last_known_returning_status, batch, anomalies,
                   readings_q, deliveryVars, retryVars, reachable, server_pc, arrived,
                   op_call>>

\* the store of the level computed from the value read, the re-evaluation of
\* returning and the 0% shutdown check
race_tick_store ==
    /\ fwd_pc = "tick_store"
    /\ LET new_level == TickLevel(loaded.tick[1], loaded.tick[2])
       IN  /\ level' = new_level
           /\ returning' = TickReturning(returning, new_level, low_threshold)
           /\ IF Depleted(new_level)
              THEN stop' = TRUE /\ fwd_pc' = "done" /\ leave_loop
              ELSE /\ stop' = stop /\ fwd_pc' = "mode"
                   /\ UNCHANGED <<batch, anomalies, deliveryVars>>
    /\ loaded' = [loaded EXCEPT !.tick = <<>>]
    /\ UNCHANGED <<monitor_pc, session, low_threshold, travel_ticks_remaining, charging_started_log_sent,
                   last_known_returning_status, readings_q,
                   retryVars, envVars>>

\* manual_drain_battery(amount) up to the read of self.battery.level
race_drain_load ==
    \E amount \in RaceDrains :
        /\ loaded.drain = <<>>
        /\ loaded' = [loaded EXCEPT !.drain = <<level, amount>>]
        /\ UNCHANGED <<monitor_pc, session, batteryVars, nodeVars, fwdVars, deliveryVars, retryVars, envVars>>

\* the store of the drained level and the rest of manual_drain_battery
race_drain_store ==
    /\ loaded.drain # <<>>
    /\ manual_drain_update(loaded.drain[1], loaded.drain[2])
    /\ loaded' = [loaded EXCEPT !.drain = <<>>]
    /\ UNCHANGED <<ticks, session, monitor_pc>>

NextRace ==
    \/ forward_loop_start
    \/ race_tick_skip
    \/ race_tick_load
    \/ race_tick_store
    \/ battery_mode
    \/ forward_loop_get
    \/ battery_flush
    \/ race_drain_load
    \/ race_drain_store

SpecRace == InitBattery /\ [][NextRace]_vars

\* C18: a manual drain and a battery tick that overlap leave the level of a
\* serial order: each stores the level obtained by applying its operation to
\* the level held at the time of the store, so that no update is lost
C18_NoLostUpdate ==
    [][/\ race_drain_store => level' = DrainedLevel(level, loaded.drain[2])
       /\ race_tick_store => level' = TickLevel(level, loaded.tick[2])
      ]_vars

\* ------------------------------------------------ a sensor session's frames
\* readings of the other sensor sessions; the run is shorter than a battery
\* tick interval
other_sensor_put ==
    \E values \in DeliveryValues : arrived < MaxFrames /\ sensor_handler_put(values)

NextSession ==
    \/ server_setup
    \/ session_accept
    \/ session_recv
    \/ session_frame
    \/ session_end
    \/ other_sensor_put
    \/ forward_loop_start
    \/ race_tick_skip
    \/ battery_mode
    \/ forward_loop_get
    \/ battery_flush

SpecSession == InitBattery /\ [][NextSession]_vars

\* C19: no frame and no connection event of a sensor session aborts the
\* node: the aggregation loop is never ended by an exception that a received
\* frame causes
C19_FrameErrorsIsolated == fwd_pc # "raised_TypeError"

\* this step is the handler's pass over the first frame of the buffer
FrameStep ==
    /\ session.state = "open"
    /\ session.buffer # <<>>
    /\ ~stop
    /\ session' # session

\* C20: a frame that fails to decode is discarded, nothing is enqueued for
\* it and the connection stays open with the frames behind it still in the
\* buffer; a frame that decodes is enqueued, whatever failed before it
C20_DecodeFailureDiscarded ==
    [][FrameStep =>
          IF FromBytesRaises(Head(session.buffer)) # "None"
          THEN /\ readings_q' = readings_q
               /\ arrived' = arrived
               /\ session'.state = "open"
               /\ session'.buffer = Tail(session.buffer)
          ELSE /\ readings_q' = Append(readings_q,
                                       from_bytes(Head(session.buffer), arrived + 1))
               /\ session'.state = "open"
      ]_vars

\* the first frame of the session was not JSON and was discarded, the valid
\* frame behind it was enqueued, and the connection is still open
C20_Witness ==
    /\ session.state = "open"
    /\ session.log = <<"JSON decode error", "RX">>
    /\ session.buffer = <<>>
    /\ arrived = 1
    /\ Len(readings_q) = 1
    /\ readings_q[1].sensor_id = "sensor1"

\* the timestamps of the session's readings in a sequence of readings
RECURSIVE SessionStamps(_)
SessionStamps(readings) ==
    IF readings = <<>> THEN <<>>
    ELSE IF readings[1].sensor_id = "sensor1"
    THEN <<readings[1].timestamp>> \o SessionStamps(Tail(readings))
    ELSE SessionStamps(Tail(readings))

\* every element of the sequence is smaller than the next
Increasing(stamps) == \A i \in 1..(Len(stamps) - 1) : stamps[i] < stamps[i + 1]

\* C21: while the node is not stopping, every frame of the session that
\* decodes is put on the shared queue once, anomalous or not, behind what the
\* queue holds, and the session's readings are in the batch and the queue in
\* the order of their frames, each at most once
C21_EnqueuedOnceInOrder ==
    /\ [](Increasing(SessionStamps(batch \o readings_q)))
    /\ [][(FrameStep /\ FromBytesRaises(Head(session.buffer)) = "None") =>
              /\ readings_q' = Append(readings_q,
                                      from_bytes(Head(session.buffer), arrived + 1))
              /\ session'.buffer = Tail(session.buffer)
         ]_vars

\* the session's second and third frames, the second out of range, are in
\* the queue in the order sent, behind a reading of another session
C21_Witness ==
    /\ Len(readings_q) = 3
    /\ readings_q[1].sensor_id = "sensor2"
    /\ SessionStamps(readings_q) = <<2, 3>>
    /\ readings_q[2].types.temperature = "float"
    /\ is_anomaly(readings_q[2])
    /\ readings_q[3].types.temperature = "float"
    /\ ~is_anomaly(readings_q[3])
    /\ ~stop

\* ------------------------------------------------- frame splitting, by bytes
\* Here the connection is followed byte by byte: session.stream is what the
\* sensor writes, session.sent how many of these bytes recv has returned, and
\* session.buffer the handler's bytes.

\* json.dumps of a reading, as bytes: a key and the kind of the values, a
\* key and the timestamp, in braces
json_dumps(reading) ==
    <<"{", "k", IF is_anomaly(reading) THEN "a" ELSE "v",
      "t", IF reading.timestamp = 1 THEN "1" ELSE "2", "}">>

\* json.loads of the bytes of one frame; bytes that are not a whole JSON text
\* are rejected
json_loads(raw) ==
    IF /\ Len(raw) = 6
       /\ raw[1] = "{"
       /\ raw[2] = "k"
       /\ raw[3] \in {"a", "v"}
       /\ raw[4] = "t"
       /\ raw[5] \in {"1", "2"}
       /\ raw[6] = "}"
    THEN Stamped(IF raw[3] = "a" THEN AnomalousFrame ELSE ValidFrame,
                 IF raw[5] = "1" THEN 1 ELSE 2)
    ELSE NotJsonFrame

\* SensorReading.to_bytes, by bytes
reading_to_bytes(reading) == json_dumps(reading) \o <<DELIM>>

\* the bytes of two readings sent one after the other
TwoFrameStreams ==
    { reading_to_bytes(from_bytes(Stamped(f, 1), 0)) \o
      reading_to_bytes(from_bytes(Stamped(g, 2), 0)) :
          f, g \in {ValidFrame, AnomalousFrame} }

\* the position of the first delimiter in the buffer
DelimAt(buf) ==
    CHOOSE i \in 1..Len(buf) : buf[i] = DELIM /\ \A j \in 1..(i - 1) : buf[j] # DELIM

HasDelim(buf) == \E i \in 1..Len(buf) : buf[i] = DELIM

\* a split that forgets what follows the delimiter
split_rest_dropped(buf) == <<>>

\* raw, buffer = buffer.split(DELIM, 1)
split_raw(buf) == SubSeq(buf, 1, DelimAt(buf) - 1)
split_rest(buf) == SubSeq(buf, DelimAt(buf) + 1, Len(buf))

\* the sensor connects and writes two readings
split_accept ==
    /\ server_pc = "listening"
    /\ ~stop
    /\ session.state = "none"
    /\ \E bytes \in TwoFrameStreams :
           session' = [session EXCEPT !.state = "open", !.stream = bytes]
    /\ UNCHANGED <<batteryVars, nodeVars, fwdVars, deliveryVars, retryVars, envVars, loaded, monitor_pc>>

\* conn.recv(1024) returns the next bytes of the stream, one or more
split_recv ==
    /\ session.state = "open"
    /\ ~stop
    /\ ~HasDelim(session.buffer)
    /\ \E k \in 1..Min(1024, Len(session.stream) - session.sent) :
           session' = [session EXCEPT
                          !.buffer = @ \o SubSeq(session.stream, session.sent + 1,
                                                 session.sent + k),
                          !.sent = @ + k]
    /\ UNCHANGED <<batteryVars, nodeVars, fwdVars, deliveryVars, retryVars, envVars, loaded, monitor_pc>>

\* one pass of the inner loop: split at the first delimiter and decode
split_frame ==
    /\ session.state = "open"
    /\ ~stop
    /\ HasDelim(session.buffer)
    /\ LET raw == split_raw(session.buffer)
           frame == json_loads(raw)
           raised == FromBytesRaises(frame)
       IN  IF raw = <<>>
           THEN /\ session' = [session EXCEPT !.buffer = split_rest(@)]
                /\ UNCHANGED <<readings_q, arrived>>
           ELSE IF raised = "None"
           THEN /\ readings_q' = put(readings_q, from_bytes(frame, arrived + 1))
                /\ arrived' = arrived + 1
                /\ session' = [session EXCEPT !.buffer = split_rest(@),
                                              !.log = Append(@, "RX")]
           ELSE /\ session' = [session_after_error(session, raised) EXCEPT
                                   !.buffer = split_rest(session.buffer)]
                /\ UNCHANGED <<readings_q, arrived>>
    /\ UNCHANGED <<batteryVars, nodeVars, fwd_pc, last_known_returning_status, batch,
                   anomalies, deliveryVars, retryVars, reachable, server_pc, ticks,
                   op_call, loaded, monitor_pc>>

\* conn.recv returns b"": the sensor has closed the connection
split_end ==
    /\ session.state = "open"
    /\ ~stop
    /\ ~HasDelim(session.buffer)
    /\ session' = [session EXCEPT !.state = "closed"]
    /\ UNCHANGED <<batteryVars, nodeVars, fwdVars, deliveryVars, retryVars, envVars, loaded, monitor_pc>>

NextSplit ==
    \/ server_setup
    \/ split_accept
    \/ split_recv
    \/ split_frame
    \/ split_end

SpecSplit == InitBattery /\ [][NextSplit]_vars

\* the bytes of the readings of a sequence, each followed by the delimiter
RECURSIVE FramesOf(_)
FramesOf(readings) ==
    IF readings = <<>> THEN <<>>
    ELSE reading_to_bytes(readings[1]) \o FramesOf(Tail(readings))

\* C22: however recv cuts a stream of two frames, the records decoded so far
\* followed by the buffered bytes are exactly the bytes received so far: no
\* byte is lost or decoded twice, bytes behind the last delimiter stay in the
\* buffer, and once the whole stream is split exactly two records have been
\* decoded, in stream order
C22_FrameSplitting ==
    /\ FramesOf(readings_q) \o session.buffer = SubSeq(session.stream, 1, session.sent)
    /\ (session.state = "open" /\ session.sent = Len(session.stream)
            /\ ~HasDelim(session.buffer)) =>
           /\ session.buffer = <<>>
           /\ Len(readings_q) = 2
           /\ readings_q[1].timestamp = 1
           /\ readings_q[2].timestamp = 2
           /\ session.log = <<"RX", "RX">>

\* the whole stream was received and split: an in-range reading and then an
\* out-of-range reading were decoded, in that order, and the buffer is empty
C22_Witness ==
    /\ session.state = "open"
    /\ session.sent = Len(session.stream)
    /\ session.buffer = <<>>
    /\ Len(readings_q) = 2
    /\ ~is_anomaly(readings_q[1])
    /\ is_anomaly(readings_q[2])
    /\ readings_q[2].timestamp = 2

\* ------------------------------------------------------ cooperative shutdown
\* All workers of run(): the acceptor, one session handler, the forward loop,
\* the battery monitor and the retry loop, with one report left in unsent/.
\* The stop event is set by a failed bind or by the battery reaching 0.
InitShutdown ==
    /\ InitNode
    /\ unsent = [g \in {0} |-> to_bytes(OldReport)]
    /\ reachable = TRUE

shutdown_recv == session_recv_from({<<ValidFrame>>})

NextShutdown ==
    \/ server_setup
    \/ run_server_exit
    \/ session_accept
    \/ shutdown_recv
    \/ session_frame
    \/ session_end
    \/ forward_loop_start
    \/ delivery_tick
    \/ battery_mode
    \/ forward_loop_get
    \/ battery_flush
    \/ delivery_drain
    \/ monitor_check
    \/ monitor_wake
    \/ retry_loop_sleep
    \/ retry_loop_scan
    \/ retry_file

\* every thread keeps being scheduled and every bounded wait (accept and recv
\* timeouts, queue timeout, sleeps) ends; no sensor data has to arrive
SpecShutdownFair ==
    /\ InitShutdown
    /\ [][NextShutdown]_vars
    /\ WF_vars(server_setup)
    /\ WF_vars(run_server_exit)
    /\ WF_vars(stop /\ shutdown_recv)
    /\ WF_vars(session_frame)
    /\ WF_vars(forward_loop_start)
    /\ WF_vars(delivery_tick)
    /\ WF_vars(battery_mode)
    /\ WF_vars(forward_loop_get)
    /\ WF_vars(battery_flush)
    /\ WF_vars(monitor_check)
    /\ WF_vars(monitor_wake)
    /\ WF_vars(retry_loop_sleep)
    /\ WF_vars(retry_loop_scan)
    /\ WF_vars(retry_file)

\* no worker is running any more
AllWorkersDone ==
    /\ server_pc = "done"
    /\ session.state \in {"none", "closed"}
    /\ fwd_pc \in {"done", "raised_OSError", "raised_TypeError"}
    /\ monitor_pc = "done"
    /\ retry_pc = "done"

\* C23: once the stop event is set, the acceptor, the session handler, the
\* forward loop, the battery monitor and the retry loop all terminate, with
\* no further connection or sensor data
C23_CooperativeShutdown == stop ~> AllWorkersDone

\* the battery reached 0 with the sensor connected and every worker has ended
C23_Witness ==
    /\ stop
    /\ level = 0
    /\ AllWorkersDone
    /\ session.state = "closed"
    /\ session.sent > 0

\* ----------------------------------------------------- reports over batches
\* The node has just recharged to 93 (tick 37 of the scenario) and its loop is
\* about to notice that it is active again, with any batch of up to MaxBatch
\* readings of two sensors collected on the way.
ReportValues ==
    SensorValues \cup { [sensor_id |-> "sensor1", temperature |-> 40, humidity |-> 10] }

\* the readings with these values, in order of arrival
BatchOf(values) ==
    [i \in 1..Len(values) |->
        [sensor_id |-> values[i].sensor_id,
         temperature |-> values[i].temperature,
         humidity |-> values[i].humidity,
         timestamp |-> i,
         types |-> [temperature |-> "float", humidity |-> "float"]]]

\* the anomaly list the forward loop has built for these readings
RECURSIVE AnomaliesOf(_)
AnomaliesOf(readings) ==
    IF readings = <<>> THEN <<>>
    ELSE (IF is_anomaly(readings[1]) THEN <<AnomalyEvent(readings[1])>> ELSE <<>>)
             \o AnomaliesOf(Tail(readings))

Batches == UNION { [1..n -> ReportValues] : n \in 1..MaxBatch }

InitReport ==
    /\ \E values \in Batches :
           /\ batch = BatchOf(values)
           /\ anomalies = AnomaliesOf(BatchOf(values))
           /\ arrived = Len(values)
    /\ level = 93
    /\ returning = FALSE
    /\ low_threshold = DEFAULT_LOW_THRESHOLD
    /\ travel_ticks_remaining = 0
    /\ charging_started_log_sent = TRUE
    /\ stop = FALSE
    /\ fwd_pc = "mode"
    /\ last_known_returning_status = TRUE
    /\ readings_q = <<>>
    /\ built = <<>>
    /\ received = <<>>
    /\ unsent = EmptyDir
    /\ now = 1
    /\ reachable \in BOOLEAN
    /\ retry_pc = "top"
    /\ retry_todo = {}
    /\ retry_log = [file |-> -1, outcome |-> "none"]
    /\ server_pc = "listening"
    /\ ticks = 0
    /\ op_call = [op |-> "none", arg |-> 0, ret |-> "None"]
    /\ loaded = [tick |-> <<>>, drain |-> <<>>]
    /\ session = [state |-> "none", buffer |-> <<>>, stream |-> <<>>, sent |-> 0,
                  log |-> <<>>]
    /\ monitor_pc = "check"

NextReport ==
    \/ battery_mode
    \/ forward_loop_get

SpecReport == InitReport /\ [][NextReport]_vars

\* the sum of a field over readings 1..n
RECURSIVE SumUpTo(_, _, _)
SumUpTo(readings, field, n) ==
    IF n = 0 THEN 0 ELSE SumUpTo(readings, field, n - 1) + readings[n][field]

\* the quotient avg equals total / count
IsQuotient(avg, total, count) == avg.den # 0 /\ avg.num * count = total * avg.den

\* C24: a report built from a batch of N >= 1 readings has avg_temperature
\* and avg_humidity equal to the sums of the readings' temperatures and
\* humidities divided by N, and sensor_count equal to the number of distinct
\* sensor ids in the batch
C24_ReportAverages ==
    [][SendStep =>
          LET rpt == built'[Len(built')]
              N == Len(batch)
          IN  /\ N >= 1
              /\ IsQuotient(rpt.avg_temperature, SumUpTo(batch, "temperature", N), N)
              /\ IsQuotient(rpt.avg_humidity, SumUpTo(batch, "humidity", N), N)
              /\ \E ids \in SUBSET {"sensor1", "sensor2"} :
                     /\ ids = { batch[i].sensor_id : i \in 1..N }
                     /\ rpt.sensor_count = Cardinality(ids)
      ]_vars

\* a report over three readings of two sensors: 25, 45 and 40 degrees
C24_Witness ==
    /\ Len(built) = 1
    /\ built[1].avg_temperature = [num |-> 110, den |-> 3]
    /\ built[1].avg_humidity = [num |-> 150, den |-> 3]
    /\ built[1].sensor_count = 2
    /\ fwd_pc = "get"
    /\ batch = <<>>

\* ------------------------------------------------------- anomaly detection
\* A sensor sends readings with any temperature and humidity around the
\* thresholds to an active node; the forward loop classifies them.
MaxProbes == 1
Temperatures == {-1, 0, 1, 20, 39, 40, 41}
Humidities == {9, 10, 11, 50, 89, 90, 91}

probe_put ==
    \E t \in Temperatures, h \in Humidities :
        /\ arrived < MaxProbes
        /\ sensor_handler_put([sensor_id |-> "sensor1", temperature |-> t, humidity |-> h])

NextAnomaly ==
    \/ server_setup
    \/ probe_put
    \/ forward_loop_start
    \/ race_tick_skip
    \/ battery_mode
    \/ forward_loop_get
    \/ battery_flush

SpecAnomaly == InitBattery /\ [][NextAnomaly]_vars

\* the readings of the batch that the loop has recorded as anomalies
Flagged(reading) == \E i \in 1..Len(anomalies) : anomalies[i] = AnomalyEvent(reading)

\* C25: a reading is classified as anomalous exactly when its temperature is
\* outside [0,40] or its humidity is outside [10,90]; the boundary values 0,
\* 40, 10 and 90 are normal
C25_AnomalyBoundaries ==
    \A i \in 1..Len(batch) :
        LET r == batch[i]
        IN  /\ Flagged(r) <=> (r.temperature < 0 \/ r.temperature > 40
                                  \/ r.humidity < 10 \/ r.humidity > 90)
            /\ (r.temperature \in {0, 40} /\ r.humidity \in {10, 90}) => ~Flagged(r)

\* a reading of 40 degrees and 90 percent was batched and not flagged
C25_Witness ==
    /\ Len(batch) = 1
    /\ batch[1].temperature = 40
    /\ batch[1].humidity = 90
    /\ anomalies = <<>>

\* --------------------------------------------------- encoding and decoding
\* A sensor encodes readings and sends them over one connection, a second
\* sensor's readings arrive beside them; the node decodes the frames, batches
\* the readings and sends a report, which the collector decodes.
CodecReadings ==
    { [sensor_id |-> "sensor1", temperature |-> t, humidity |-> 45, timestamp |-> n,
       types |-> [temperature |-> "float", humidity |-> "float"]] :
          t \in {25, 45}, n \in 1..(MaxFrames + 1) }

\* the JSON value of a field of a reading
JsonOf(value, type) == IF type = "float" THEN Num(value) ELSE Str(value)

\* SensorReading.to_bytes without the delimiter: json.dumps(asdict(self))
reading_json(reading) ==
    [json |-> "object",
     object |-> [sensor_id |-> Str(reading.sensor_id),
                 temperature |-> JsonOf(reading.temperature, reading.types.temperature),
                 humidity |-> JsonOf(reading.humidity, reading.types.humidity),
                 timestamp |-> Str(reading.timestamp)]]

\* one recv returns the frame of one reading
CodecChunks == { <<reading_json(r)>> : r \in CodecReadings }

codec_recv == session_recv_from(CodecChunks)

codec_sensor_put ==
    \E values \in DeliveryValues : arrived < FORWARD_BATCH /\ sensor_handler_put(values)

NextCodec ==
    \/ server_setup
    \/ session_accept
    \/ codec_recv
    \/ session_frame
    \/ codec_sensor_put
    \/ forward_loop_start
    \/ race_tick_skip
    \/ battery_mode
    \/ forward_loop_get
    \/ battery_flush

SpecCodec == InitBattery /\ [][NextCodec]_vars

TravelDrains == {10, 35}
TravelThresholds == {50, 80}

\* the count after a step: an entry into returning mode starts it again, a
\* draining tick of a returning node adds one
DrainsSinceEntry(draining_tick) ==
    IF ~returning /\ returning' THEN 0
    ELSE IF draining_tick /\ returning THEN ticks + 1
    ELSE ticks

\* a battery tick that is taken, and whether it charges
TickTaken == fwd_pc = "tick" /\ ~stop
ChargingTick == ShouldCharge(returning, travel_ticks_remaining)

travel_tick ==
    \E elapsed \in BOOLEAN :
        /\ forward_loop_tick(elapsed)
        /\ ticks' = DrainsSinceEntry(elapsed /\ TickTaken /\ ~ChargingTick)

travel_drain ==
    \E amount \in TravelDrains :
        /\ manual_drain_update(level, amount)
        /\ ticks' = DrainsSinceEntry(FALSE)
        /\ UNCHANGED <<loaded, session, monitor_pc>>

travel_threshold ==
    \E v \in TravelThresholds :
        /\ threshold_update(v)
        /\ ticks' = DrainsSinceEntry(FALSE)

NextTravel ==
    \/ forward_loop_start
    \/ travel_tick
    \/ battery_mode
    \/ forward_loop_get
    \/ battery_flush
    \/ travel_drain
    \/ travel_threshold

SpecTravel == InitBattery /\ [][NextTravel]_vars

\* a battery tick that charges
ChargeStep == TickTaken /\ ChargingTick /\ level' # level

\* C27: every entry into returning mode, whether caused by a battery tick, a
\* manual drain or a threshold change, is followed by exactly two draining
\* battery ticks before the first charging tick
C27_TwoTravelTicks == [][ChargeStep => ticks = TRAVEL_TICKS]_vars

\* --------------------------------------------------- the charging decision
\* a battery tick of the forward loop: the interval has elapsed, the level
\* moves or, at level 0, the node stops
TickStep ==
    /\ TickTaken
    /\ fwd_pc' # fwd_pc
    /\ (level' # level \/ stop')

flush_check ==
    /\ fwd_pc = "flush"
    /\ fwd_pc' = IF Len(batch) >= FORWARD_BATCH /\ ~returning THEN "send" ELSE "tick"
    /\ UNCHANGED <<batteryVars, nodeVars, last_known_returning_status, batch, anomalies,
                   readings_q, deliveryVars, retryVars, envVars, loaded, session,
                   monitor_pc>>

flush_send(write_ok) ==
    /\ fwd_pc = "send"
    /\ send_report(batch, anomalies, write_ok)
    /\ IF SendRaises(batch, write_ok)
       THEN /\ fwd_pc' = "raised_OSError"
            /\ UNCHANGED <<batch, anomalies>>
       ELSE /\ fwd_pc' = "tick"
            /\ batch' = <<>>
            /\ anomalies' = <<>>
    /\ UNCHANGED <<batteryVars, nodeVars, last_known_returning_status, readings_q,
                   retryVars, envVars, loaded, session, monitor_pc>>

returning_flush_send == \E write_ok \in BOOLEAN : flush_send(write_ok)

\* the sensors of this specification send up to MaxReturnReadings readings
MaxReturnReadings == 6

returning_sensor_put ==
    \E values \in SensorValues : arrived < MaxReturnReadings /\ sensor_handler_put(values)

\* an operator drain that takes the full battery below the low threshold
ReturnDrains == {85}

returning_drain == \E amount \in ReturnDrains : manual_drain_battery(amount)

NextReturning ==
    \/ server_setup
    \/ returning_sensor_put
    \/ forward_loop_start
    \/ race_tick_skip
    \/ battery_mode
    \/ forward_loop_get
    \/ flush_check
    \/ returning_flush_send
    \/ returning_drain

SpecReturning == InitBattery /\ [][NextReturning]_vars

\* the loop takes a reading from the queue
DequeueStep == fwd_pc = "get" /\ readings_q # <<>> /\ readings_q' = Tail(readings_q)

\* C29: while the battery is in returning mode the aggregation loop emits no
\* report, even when the batch holds 5 or more readings; every reading
\* dequeued during that time is appended to the batch, and its anomaly record,
\* if any, to the anomaly list
C29_NoReportWhileReturning ==
    [][returning =>
          /\ ~SendStep
          /\ DequeueStep =>
                 /\ batch' = Append(batch, Head(readings_q))
                 /\ anomalies' = IF is_anomaly(Head(readings_q))
                                 THEN Append(anomalies, AnomalyEvent(Head(readings_q)))
                                 ELSE anomalies
      ]_vars

\* ------------------------------------------------------------ the size flush
\* this step is the size test of the forward loop, with the flush if it passes
FlushStep == fwd_pc = "flush" /\ fwd_pc' # "flush"

\* C30: in active mode, in the loop iteration in which the batch reaches the
\* size threshold of 5 readings, the aggregation loop hands one report
\* aggregating the whole batch to the delivery worker and then empties both
\* the batch and the anomaly list; no report is ever built from an empty batch
C30_SizeFlush ==
    [][/\ (FlushStep /\ ~returning /\ Len(batch) >= FORWARD_BATCH) =>
              /\ built' = Append(built, MakeReport(batch, anomalies, now))
              /\ built'[Len(built')].avg_temperature.den = Len(batch)
              /\ batch' = <<>>
              /\ anomalies' = <<>>
       /\ (FlushStep /\ Len(batch) < FORWARD_BATCH) => (built' = built /\ batch' = batch)
       /\ SendStep => batch # <<>>
      ]_vars

\* ------------------------------------------------------ shutdown at 0 percent
\* a battery tick of the forward loop where the specification counts them
CountedTick == TickTaken /\ ticks' = ticks + 1

\* C31: if a battery tick leaves the level at 0, the aggregation loop sets the
\* shutdown signal and exits in that same iteration, without dequeuing another
\* reading and without emitting a report
C31_DepletedTickExits ==
    [][/\ (CountedTick /\ level' = 0) =>
              /\ stop'
              /\ fwd_pc' = "done"
              /\ readings_q' = readings_q
              /\ batch' = batch
              /\ built' = built
       /\ fwd_pc = "done" =>
              /\ fwd_pc' = "done"
              /\ batch' = batch
              /\ built' = built
              /\ Len(readings_q') >= Len(readings_q)
      ]_vars

\* the loop has ended at level 0 with a reading in its batch and another one
\* still on the queue
C31_Witness ==
    /\ level = 0
    /\ stop
    /\ fwd_pc = "done"
    /\ readings_q # <<>>
    /\ batch # <<>>
    /\ built = <<>>

\* -------------------------------------------------------- failure to bind
\* bind or listen raises: _run_server goes from its setup to its end
BindFails == server_pc = "setup" /\ server_pc' = "done"

\* the server has ended without ever accepting a connection
ServerEndedUnconnected == server_pc = "done" /\ session.state = "none"

\* C32: if binding or listening on the sensor port fails, the shutdown signal
\* is set, the aggregation loop exits, and no session handler is ever spawned
C32_BindFailureFailsFast ==
    /\ [][BindFails => (stop' /\ session'.state = "none")]_vars
    /\ [][server_pc = "done" =>
              /\ server_pc' = "done"
              /\ session.state = "none" => session'.state = "none"]_vars
    /\ (ServerEndedUnconnected /\ stop) ~> (fwd_pc = "done" /\ ServerEndedUnconnected)

\* the bind failed on the full battery: the stop event is set, the loop has
\* ended and there is no session
C32_Witness ==
    /\ stop
    /\ level = START_LEVEL
    /\ server_pc = "done"
    /\ fwd_pc = "done"
    /\ session.state = "none"
    /\ arrived = 0

\* ------------------------------------------------------ the two thresholds
\* C33: in every reachable state, after any sequence of ticks, manual drains
\* and valid or invalid threshold changes, the battery's critical threshold
\* is strictly greater than its low threshold
C33_CriticalAboveLow == CRITICAL_BATTERY_THRESHOLD > low_threshold

\* after a drain to 65, the accepted change to 80 that started the return and
\* a tick, the change to 81 was refused
C33_Witness ==
    /\ op_call = [op |-> "set_low_battery_threshold", arg |-> 81, ret |-> "False"]
    /\ returning
    /\ level = 62
    /\ travel_ticks_remaining > 0

\* ------------------------------------------------- anomalies and their batch
\* Sensors send readings in and out of range while the battery runs one
\* cycle: active, returning, charging, active again.
MaxMixedReadings == 5

mixed_sensor_put ==
    \E values \in SensorValues : arrived < MaxMixedReadings /\ sensor_handler_put(values)

NextAnomalyList ==
    \/ server_setup
    \/ mixed_sensor_put
    \/ forward_loop_start
    \/ scenario_tick
    \/ battery_mode
    \/ forward_loop_get
    \/ battery_flush

SpecAnomalyList == InitBattery /\ [][NextAnomalyList]_vars

\* C34: at every point of the aggregation loop the pending anomaly list
\* consists exactly of the anomaly records of the anomalous readings in the
\* pending batch, in the same order; so each anomaly of an emitted report
\* refers to a reading aggregated in that report, readings accumulated while
\* returning included
C34_AnomaliesFollowBatch ==
    /\ [](anomalies = AnomaliesOf(batch))
    /\ [][SendStep =>
              LET rpt == built'[Len(built')]
              IN  /\ rpt.anomalies = AnomaliesOf(batch)
                  /\ rpt.avg_temperature.den = Len(batch)
                  /\ \A i \in 1..Len(rpt.anomalies) :
                         \E j \in 1..Len(batch) :
                             /\ batch[j].sensor_id = rpt.anomalies[i].sensor_id
                             /\ batch[j].timestamp = rpt.anomalies[i].ts
                             /\ is_anomaly(batch[j])
          ]_vars

\* the report sent on becoming active again carries the two anomalies of the
\* four readings batched on the way, in their order
C34_Witness ==
    /\ Len(built) = 1
    /\ built[1].battery_level = 93
    /\ built[1].avg_temperature.den = 4
    /\ Len(built[1].anomalies) = 2
    /\ built[1].anomalies[1].ts < built[1].anomalies[2].ts
    /\ batch = <<>>
    /\ anomalies = <<>>

\* ------------------------------------------------------ reading conservation
\* the forward loop is inside its while loop
LoopRunning == fwd_pc \in {"tick", "mode", "get", "flush"}

\* the number of readings aggregated in the reports
RECURSIVE ReportedCount(_)
ReportedCount(reports) ==
    IF reports = <<>> THEN 0
    ELSE reports[1].avg_temperature.den + ReportedCount(Tail(reports))

\* C35: every reading dequeued by the aggregation loop is, in every later
\* state while the loop is running, either in the batch or aggregated in
\* exactly one emitted report; no reading is aggregated in two reports and
\* none is removed from the batch without being reported
C35_ReadingConservation ==
    /\ [](LoopRunning =>
              /\ arrived - Len(readings_q) = Len(batch) + ReportedCount(built)
              /\ \A i, j \in 1..Len(batch) : i < j => batch[i].timestamp # batch[j].timestamp)
    /\ [][LoopRunning' =>
              /\ DequeueStep => batch' = Append(batch, Head(readings_q))
              /\ SendStep => (batch # <<>> /\ batch' = <<>>
                              /\ built' = Append(built, MakeReport(batch, anomalies, now)))
              /\ batch' # batch => (DequeueStep \/ SendStep)
          ]_vars

\* five readings were dequeued: four went into the report sent on becoming
\* active again at level 93, the fifth is in the batch
C35_Witness ==
    /\ LoopRunning
    /\ arrived = 5
    /\ readings_q = <<>>
    /\ Len(built) = 1
    /\ built[1].avg_temperature.den = 4
    /\ built[1].battery_level = 93
    /\ Len(batch) = 1
    /\ batch[1].timestamp = 5

\* ---------------------------------------------- the battery left to itself
\* The forward loop with the default battery and no operator, over any number
\* of ticks.
NextDefaults ==
    \/ forward_loop_start
    \/ battery_tick
    \/ battery_mode
    \/ forward_loop_get
    \/ battery_flush

SpecDefaults == InitBattery /\ [][NextDefaults]_vars

\* C36: with the default battery parameters (start 100, drain 3, recharge 10,
\* low threshold 20, critical threshold 90, 2-tick travel) and no operator
\* operations, the battery level is greater than 0 in every reachable state,
\* and the node never shuts down because of battery depletion
C36_NeverDepleted == level > 0 /\ ~stop /\ fwd_pc # "done"

\* the lowest level of the cycles: the return began at 17 and the two travel
\* ticks have drained the battery to 11
C36_Witness ==
    /\ level = 11
    /\ returning
    /\ travel_ticks_remaining = 0
    /\ ~charging_started_log_sent
    /\ fwd_pc = "mode"

\* ------------------------------------------------------ the travel countdown
\* C37: in every reachable state, after any interleaving of aggregation-loop
\* ticks, manual drains and threshold changes, the travel countdown is 0, 1 or
\* 2, and it is non-zero only while the battery is in returning mode.
\* Holds when ticks and operator calls are serialised (SpecBattery, SpecTravel);
\* under SpecRace a tick that read the level before a drain stores its stale
\* result after it and clears returning with the countdown still at 2.
C37_CountdownRange ==
    /\ travel_ticks_remaining \in 0..TRAVEL_TICKS
    /\ travel_ticks_remaining > 0 => returning

\* ------------------------------------------------- the batch at loop exit
\* this step ends the forward loop
LoopExits == fwd_pc # "done" /\ fwd_pc' = "done"

\* C38: when the aggregation loop exits because the shutdown signal was set
\* (shutdown on battery depletion included), the readings still held in the
\* batch are not flushed: the exiting step builds, sends and persists nothing
\* and keeps the batch, and afterwards no report is built, no file is added
\* to unsent/ and the collector receives only what the retry loop resends
\* from unsent/
C38_NoFlushOnExit ==
    [][/\ LoopExits =>
              /\ stop'
              /\ batch' = batch
              /\ anomalies' = anomalies
              /\ built' = built
              /\ received' = received
              /\ unsent' = unsent
       /\ fwd_pc = "done" =>
              /\ batch' = batch
              /\ built' = built
              /\ DOMAIN unsent' \subseteq DOMAIN unsent
              /\ \/ received' = received
                 \/ \E f \in DOMAIN unsent : received' = Append(received, unsent[f])
      ]_vars

\* the loop has ended on depletion holding two readings, both anomalous, that
\* were never reported: nothing built, nothing received, unsent/ empty
C38_Witness ==
    /\ fwd_pc = "done"
    /\ stop
    /\ Len(batch) = 2
    /\ Len(anomalies) = 2
    /\ built = <<>>
    /\ received = <<>>
    /\ unsent = EmptyDir

====
